---- MODULE Spec2Model ----
(***************************************************************************)
(* my_custom_lc_cleaner(tpf), the local background subtraction helper of   *)
(* docs/source/tutorials/1.05-interact-with-lightcurves-and-tpf.ipynb,     *)
(* statement by statement.  Arrays are indexed from 0 as numpy indexes     *)
(* them; a lightcurve is a pair of sequences (time, flux).                 *)
(*                                                                         *)
(* A float is a pair <<n, d>>: d > 0 is the rational n/d in lowest terms,  *)
(* <<0, 0>> is NaN, <<1, 0>> is +inf and <<-1, 0>> is -inf.  Rounding is   *)
(* abstracted away; NaN and infinity propagate as IEEE-754 propagates them.*)
(***************************************************************************)
EXTENDS Integers, Sequences, FiniteSets, TLC

VARIABLES tpf_flux, heap, aper_mask, back_mask, lc_aper, lc_back,
          lc_bg_sub, outlier_mask, lc_cln, raised, pc

vars == <<tpf_flux, heap, aper_mask, back_mask, lc_aper, lc_back,
          lc_bg_sub, outlier_mask, lc_cln, raised, pc>>

(* Largest pixel grid and longest cadence sequence explored. *)
MaxH == 3
MaxW == 3
MaxT == 3

----------------------------------------------------------------------------
(* Floats *)

NaN == <<0, 0>>

Flt(k) == <<k, 1>>

IsNan(x) == x = NaN

IsFinite(x) == x[2] > 0

Abs(k) == IF k < 0 THEN -k ELSE k

Sign(k) == IF k < 0 THEN -1 ELSE IF k > 0 THEN 1 ELSE 0

RECURSIVE Gcd(_, _)
Gcd(a, b) == IF b = 0 THEN a ELSE Gcd(b, a % b)

Ratio(n, d) == LET g == Gcd(Abs(n), d) IN <<n \div g, d \div g>>

FNeg(x) == <<-x[1], x[2]>>

FAdd(x, y) ==
    IF IsNan(x) \/ IsNan(y) THEN NaN
    ELSE IF ~IsFinite(x) /\ ~IsFinite(y) THEN (IF x = y THEN x ELSE NaN)
    ELSE IF ~IsFinite(x) THEN x
    ELSE IF ~IsFinite(y) THEN y
    ELSE Ratio(x[1] * y[2] + y[1] * x[2], x[2] * y[2])

FSub(x, y) == FAdd(x, FNeg(y))

(* x / k for an integer count k >= 0; a zero count does not raise, it gives
   NaN (0/0, NaN/0) or a signed infinity. *)
FDiv(x, k) ==
    IF IsNan(x) THEN NaN
    ELSE IF k = 0 THEN <<Sign(x[1]), 0>>
    ELSE IF ~IsFinite(x) THEN x
    ELSE Ratio(x[1], x[2] * k)

----------------------------------------------------------------------------
(* Arrays *)

Min(a, b) == IF a < b THEN a ELSE b

Max(a, b) == IF a > b THEN a ELSE b

NRows(m) == Cardinality(DOMAIN m)

NCols(m) == Cardinality(DOMAIN m[0])

(* Mutant of SliceBound: a negative bound is clipped to 0, not counted from
   the end of the axis. *)
SliceBoundNoWrap(i, n) == IF i < 0 THEN 0 ELSE Min(i, n)

(* The indices a slice start:stop selects on an axis of length n. *)
SliceBound(i, n) == IF i < 0 THEN Max(i + n, 0) ELSE Min(i, n)

(* Mutant of SliceIndices: the slice runs to the end of the axis (start:). *)
SliceIndicesToEnd(start, stop, n) == SliceBound(start, n) .. (n - 1)

SliceIndices(start, stop, n) == SliceBound(start, n) .. (SliceBound(stop, n) - 1)

(* mask * False : a new boolean array *)
MulScalar(m, b) == [r \in DOMAIN m |-> [c \in DOMAIN m[r] |-> m[r][c] /\ b]]

(* Mutant of SetInner: m[0:-1, 0:-1] = True. *)
SetInnerFromZero(m) ==
    [r \in DOMAIN m |-> [c \in DOMAIN m[r] |->
        IF r \in SliceIndices(0, -1, NRows(m)) /\ c \in SliceIndices(0, -1, NCols(m))
        THEN TRUE ELSE m[r][c]]]

(* m[1:-1, 1:-1] = True, in place *)
SetInner(m) ==
    [r \in DOMAIN m |-> [c \in DOMAIN m[r] |->
        IF r \in SliceIndices(1, -1, NRows(m)) /\ c \in SliceIndices(1, -1, NCols(m))
        THEN TRUE ELSE m[r][c]]]

(* Mutant of AllNan: np.any(np.isnan(flux), axis=0). *)
AnyNan(flux) ==
    [r \in DOMAIN flux[0] |-> [c \in DOMAIN flux[0][r] |->
        \E t \in DOMAIN flux : IsNan(flux[t][r][c])]]

(* np.all(np.isnan(flux), axis=0) *)
AllNan(flux) ==
    [r \in DOMAIN flux[0] |-> [c \in DOMAIN flux[0][r] |->
        \A t \in DOMAIN flux : IsNan(flux[t][r][c])]]

(* Mutant of BackMask: ~aper | ~allnan. *)
BackMaskOr(aper, allnan) ==
    [r \in DOMAIN aper |-> [c \in DOMAIN aper[r] |-> ~aper[r][c] \/ ~allnan[r][c]]]

(* ~aper & ~allnan *)
BackMask(aper, allnan) ==
    [r \in DOMAIN aper |-> [c \in DOMAIN aper[r] |-> ~aper[r][c] /\ ~allnan[r][c]]]

TrueCells(m) == {rc \in (DOMAIN m) \X (DOMAIN m[0]) : m[rc[1]][rc[2]]}

(* mask.sum() *)
MaskSum(m) == Cardinality(TrueCells(m))

----------------------------------------------------------------------------
(* Lightcurves *)

NoLc == [time |-> <<>>, flux |-> <<>>]

RECURSIVE SumCells(_, _)
SumCells(img, cells) ==
    IF cells = {} THEN Flt(0)
    ELSE LET rc == CHOOSE x \in cells : TRUE
         IN FAdd(img[rc[1]][rc[2]], SumCells(img, cells \ {rc}))

(* tpf.to_lightcurve(aperture_mask=mask): per cadence, the sum of the flux
   over the true cells of the mask *)
ToLightcurve(flux, mask) ==
    LET n == Cardinality(DOMAIN flux)
    IN [time |-> [i \in 1..n |-> i - 1],
        flux |-> [i \in 1..n |-> SumCells(flux[i - 1], TrueCells(mask))]]

(* lc / k *)
LcDiv(lc, k) == [lc EXCEPT !.flux = [i \in DOMAIN lc.flux |-> FDiv(lc.flux[i], k)]]

(* lc - array *)
LcSub(lc, arr) == [lc EXCEPT !.flux = [i \in DOMAIN lc.flux |-> FSub(lc.flux[i], arr[i])]]

(* -lc *)
LcNeg(lc) == [lc EXCEPT !.flux = [i \in DOMAIN lc.flux |-> FNeg(lc.flux[i])]]

(* Mutant of Normalised: divides by mask.size, the number of cells. *)
NormalisedBySize(flux, mask) ==
    LcDiv(ToLightcurve(flux, mask), NRows(mask) * NCols(mask))

(* tpf.to_lightcurve(aperture_mask=mask) / mask.sum() *)
Normalised(flux, mask) == LcDiv(ToLightcurve(flux, mask), MaskSum(mask))

(* Mutant of BgSub: a + b.flux. *)
BgAdd(a, b) == [a EXCEPT !.flux = [i \in DOMAIN a.flux |-> FAdd(a.flux[i], b.flux[i])]]

(* a - b.flux *)
BgSub(a, b) == LcSub(a, b.flux)

RECURSIVE Keep(_, _, _)
Keep(s, drop, i) ==
    IF i > Len(s) THEN <<>>
    ELSE (IF i \in drop THEN <<>> ELSE <<s[i]>>) \o Keep(s, drop, i + 1)

(* lc.remove_outliers(), the samples at the positions in outliers being the
   anomalous ones *)
RemoveOutliers(lc, outliers) ==
    [time |-> Keep(lc.time, outliers, 1), flux |-> Keep(lc.flux, outliers, 1)]

----------------------------------------------------------------------------
(* Inputs: a target pixel file of T cadences of H x W pixels.  The pipeline
   mask is a rectangle of pixels: one anchored at pixel (0, 0), or the grid
   shrunk by m pixels on every side (empty once m is large enough).  Every
   pixel of the cube follows one of a few time profiles, one profile inside
   such a rectangle and one outside it. *)

Rects(H, W) ==
    {<<0, r1, 0, c1>> : r1 \in 0..H-1, c1 \in 0..W-1}
        \cup {<<m, H - 1 - m, m, W - 1 - m>> : m \in 0..Min(H, W)}

InRect(q, r, c) == q[1] <= r /\ r <= q[2] /\ q[3] <= c /\ c <= q[4]

RectMask(H, W, q) == [r \in 0..H-1 |-> [c \in 0..W-1 |-> InRect(q, r, c)]]

Profiles == {"dead", "flat", "ramp", "gap", "dip"}

ProfileFlux(p, t) ==
    CASE p = "dead" -> NaN
      [] p = "flat" -> Flt(2)
      [] p = "ramp" -> Flt(t + 1)
      [] p = "gap"  -> IF t = 0 THEN NaN ELSE Flt(3)
      [] p = "dip"  -> IF t = 0 THEN Flt(-1) ELSE Flt(1)

Cube(T, H, W, q, pin, pout) ==
    [t \in 0..T-1 |-> [r \in 0..H-1 |-> [c \in 0..W-1 |->
        ProfileFlux(IF InRect(q, r, c) THEN pin ELSE pout, t)]]]

NoMask == [r \in {} |-> FALSE]

Init ==
    \E T \in 1..MaxT, H \in 1..MaxH, W \in 1..MaxW :
      \E qm \in Rects(H, W), qf \in Rects(H, W), pin \in Profiles, pout \in Profiles :
        /\ tpf_flux = Cube(T, H, W, qf, pin, pout)
        /\ heap = [o \in {"pipeline_mask"} |-> RectMask(H, W, qm)]
        /\ aper_mask = "None"
        /\ back_mask = NoMask
        /\ lc_aper = NoLc
        /\ lc_back = NoLc
        /\ lc_bg_sub = NoLc
        /\ outlier_mask = {}
        /\ lc_cln = NoLc
        /\ raised = FALSE
        /\ pc = "l118"

----------------------------------------------------------------------------
(* my_custom_lc_cleaner, one action per statement.  No statement has a raise
   path: slices clip to the axis, and dividing by a zero mask.sum() gives NaN
   or an infinity, so raised stays as it is. *)

(* Mutant of NewAperMask: aper_mask = tpf.pipeline_mask; aper_mask *= False,
   which clears the pipeline mask itself. *)
NewAperMaskInPlace ==
    /\ pc = "l118"
    /\ heap' = [heap EXCEPT !["pipeline_mask"] = MulScalar(@, FALSE)]
    /\ aper_mask' = "pipeline_mask"
    /\ pc' = "l119"
    /\ UNCHANGED <<tpf_flux, back_mask, lc_aper, lc_back, lc_bg_sub,
                   outlier_mask, lc_cln, raised>>

(* aper_mask = tpf.pipeline_mask * False *)
NewAperMask ==
    /\ pc = "l118"
    /\ heap' = [o \in DOMAIN heap \cup {"aper"} |->
                  IF o = "aper" THEN MulScalar(heap["pipeline_mask"], FALSE) ELSE heap[o]]
    /\ aper_mask' = "aper"
    /\ pc' = "l119"
    /\ UNCHANGED <<tpf_flux, back_mask, lc_aper, lc_back, lc_bg_sub,
                   outlier_mask, lc_cln, raised>>

(* aper_mask[1:-1, 1:-1] = True *)
FillInner ==
    /\ pc = "l119"
    /\ heap' = [heap EXCEPT ![aper_mask] = SetInner(@)]
    /\ pc' = "l120"
    /\ UNCHANGED <<tpf_flux, aper_mask, back_mask, lc_aper, lc_back, lc_bg_sub,
                   outlier_mask, lc_cln, raised>>

(* back_mask = ~aper_mask & ~np.all(np.isnan(tpf.flux), axis=0) *)
DeriveBackMask ==
    /\ pc = "l120"
    /\ back_mask' = BackMask(heap[aper_mask], AllNan(tpf_flux))
    /\ pc' = "l123"
    /\ UNCHANGED <<tpf_flux, heap, aper_mask, lc_aper, lc_back, lc_bg_sub,
                   outlier_mask, lc_cln, raised>>

(* lc_aper = tpf.to_lightcurve(aperture_mask=aper_mask) / aper_mask.sum() *)
AggregateAper ==
    /\ pc = "l123"
    /\ lc_aper' = Normalised(tpf_flux, heap[aper_mask])
    /\ pc' = "l124"
    /\ UNCHANGED <<tpf_flux, heap, aper_mask, back_mask, lc_back, lc_bg_sub,
                   outlier_mask, lc_cln, raised>>

(* lc_back = tpf.to_lightcurve(aperture_mask=back_mask) / back_mask.sum() *)
AggregateBack ==
    /\ pc = "l124"
    /\ lc_back' = Normalised(tpf_flux, back_mask)
    /\ pc' = "l126"
    /\ UNCHANGED <<tpf_flux, heap, aper_mask, back_mask, lc_aper, lc_bg_sub,
                   outlier_mask, lc_cln, raised>>

(* lc_bg_sub = lc_aper - lc_back.flux *)
Subtract ==
    /\ pc = "l126"
    /\ lc_bg_sub' = BgSub(lc_aper, lc_back)
    /\ pc' = "l129"
    /\ UNCHANGED <<tpf_flux, heap, aper_mask, back_mask, lc_aper, lc_back,
                   outlier_mask, lc_cln, raised>>

(* Mutant of Clean: lc_aper.remove_outliers(), the background never removed. *)
CleanAper ==
    /\ pc = "l129"
    /\ \E S \in SUBSET (1..Len(lc_bg_sub.flux)) :
         /\ outlier_mask' = S
         /\ lc_cln' = RemoveOutliers(lc_aper, S)
    /\ pc' = "done"
    /\ UNCHANGED <<tpf_flux, heap, aper_mask, back_mask, lc_aper, lc_back,
                   lc_bg_sub, raised>>

(* lc_cln = lc_bg_sub.remove_outliers(); return lc_cln *)
Clean ==
    /\ pc = "l129"
    /\ \E S \in SUBSET (1..Len(lc_bg_sub.flux)) :
         /\ outlier_mask' = S
         /\ lc_cln' = RemoveOutliers(lc_bg_sub, S)
    /\ pc' = "done"
    /\ UNCHANGED <<tpf_flux, heap, aper_mask, back_mask, lc_aper, lc_back,
                   lc_bg_sub, raised>>

Next ==
    \/ NewAperMask
    \/ FillInner
    \/ DeriveBackMask
    \/ AggregateAper
    \/ AggregateBack
    \/ Subtract
    \/ Clean

Spec == Init /\ [][Next]_vars

----------------------------------------------------------------------------
(* Vocabulary of the properties *)

T == Cardinality(DOMAIN tpf_flux)

H == NRows(tpf_flux[0])

W == NCols(tpf_flux[0])

Pixels == (0..H-1) \X (0..W-1)

SourceMask == heap["pipeline_mask"]

InnerAperture == heap[aper_mask]

(* the Aperture Partitioner (lines 118-120) has run *)
Partitioned == pc \in {"l123", "l124", "l126", "l129", "done"}

AperAggregated == pc \in {"l124", "l126", "l129", "done"}

BackAggregated == pc \in {"l126", "l129", "done"}

(* the Background Subtractor (line 126) has just run *)
Subtracted == pc = "l129"

(* neither the first nor the last row, and neither the first nor the last column *)
Interior(r, c) == r # 0 /\ r # H - 1 /\ c # 0 /\ c # W - 1

(* invalid at every time sample *)
Dead(r, c) == \A t \in 0..T-1 : tpf_flux[t][r][c] = NaN

AllTrue(m) == \A rc \in Pixels : m[rc[1]][rc[2]]

AllFalse(m) == \A rc \in Pixels : ~m[rc[1]][rc[2]]

Scenario333 == T = 3 /\ H = 3 /\ W = 3 /\ AllTrue(SourceMask)

----------------------------------------------------------------------------
(* C1, as stated: no pixel location is true in both the Source Mask
   (tpf.pipeline_mask) and the Background Mask. *)
C1_SourceBackDisjoint ==
    Partitioned =>
        \A rc \in Pixels : ~(SourceMask[rc[1]][rc[2]] /\ back_mask[rc[1]][rc[2]])

(* C1, amended: a pixel location is true in both the Source Mask and the
   Background Mask exactly when it is a Source Mask pixel of the first or last
   row or column that is not invalid at every time sample; in the interior
   the two masks never meet. *)
C1_SourceBackMeetOnBorderOnly ==
    Partitioned =>
        \A rc \in Pixels :
            (SourceMask[rc[1]][rc[2]] /\ back_mask[rc[1]][rc[2]])
                <=> (SourceMask[rc[1]][rc[2]] /\ ~Interior(rc[1], rc[2])
                        /\ ~Dead(rc[1], rc[2]))

C1_Witness ==
    /\ Partitioned
    /\ \E rc \in Pixels : SourceMask[rc[1]][rc[2]] /\ back_mask[rc[1]][rc[2]]
    /\ \E rc \in Pixels : SourceMask[rc[1]][rc[2]] /\ Interior(rc[1], rc[2])
    /\ \E rc \in Pixels : SourceMask[rc[1]][rc[2]] /\ Dead(rc[1], rc[2])

(* C2: on a grid of at least 3 x 3 pixels no pixel location is true in both
   the inner aperture and the Background Mask. *)
C2_BackAperDisjoint ==
    (Partitioned /\ H >= 3 /\ W >= 3) =>
        \A rc \in Pixels : ~(InnerAperture[rc[1]][rc[2]] /\ back_mask[rc[1]][rc[2]])

C2_Witness ==
    /\ Partitioned /\ H >= 3 /\ W >= 3
    /\ MaskSum(InnerAperture) > 0
    /\ MaskSum(back_mask) > 0
    /\ \E rc \in Pixels : Interior(rc[1], rc[2]) /\ ~Dead(rc[1], rc[2])

(* C3: the Background Mask is true at a pixel location exactly when the
   location is not an interior cell and is not invalid at every time sample;
   so it holds no pixel that is invalid at every time sample. *)
C3_BackMaskDefinition ==
    Partitioned =>
        /\ \A rc \in Pixels :
               back_mask[rc[1]][rc[2]] <=> (~Interior(rc[1], rc[2]) /\ ~Dead(rc[1], rc[2]))
        /\ \A rc \in Pixels : Dead(rc[1], rc[2]) => ~back_mask[rc[1]][rc[2]]
        /\ \A rc \in Pixels : InnerAperture[rc[1]][rc[2]] <=> Interior(rc[1], rc[2])

C3_Witness ==
    /\ Partitioned
    /\ MaskSum(back_mask) > 0
    /\ \E rc \in Pixels : ~Interior(rc[1], rc[2]) /\ Dead(rc[1], rc[2])
    /\ \E rc \in Pixels : /\ ~Interior(rc[1], rc[2]) /\ ~Dead(rc[1], rc[2])
                          /\ \E t \in 0..T-1 : tpf_flux[t][rc[1]][rc[2]] = NaN

(* C4, as stated: for a 3 x 3 x 3 cube with an all-true Source Mask the
   Background Mask is all-false. *)
C4_ScenarioBackAllFalse ==
    (Partitioned /\ Scenario333) => AllFalse(back_mask)

(* C4, amended: for a 3 x 3 x 3 cube with an all-true Source Mask the
   Background Mask is false at the centre pixel and true at exactly those of
   the eight border pixels that are not invalid at every cadence; it is
   all-false only when all eight are. *)
C4_ScenarioBackIsLiveBorder ==
    (Partitioned /\ Scenario333) =>
        /\ ~back_mask[1][1]
        /\ \A rc \in Pixels \ {<<1, 1>>} : back_mask[rc[1]][rc[2]] <=> ~Dead(rc[1], rc[2])
        /\ AllFalse(back_mask) <=> \A rc \in Pixels \ {<<1, 1>>} : Dead(rc[1], rc[2])

C4_Witness ==
    /\ Partitioned /\ Scenario333
    /\ MaskSum(back_mask) = 8
    /\ ~Dead(1, 1)

(* C5, as stated: aggregating with a mask that has no true cell ends in a
   defined error. *)
C5_EmptyMaskRaises ==
    /\ (AperAggregated /\ MaskSum(InnerAperture) = 0) => raised
    /\ (BackAggregated /\ MaskSum(back_mask) = 0) => raised

(* C6: aggregating with a mask of exactly one true cell gives, at every
   cadence, the flux of that cell; the inner aperture of a 3 x 3 grid is such
   a mask, its one cell being the centre. *)
C6_SingleCellUnchanged ==
    /\ (AperAggregated /\ MaskSum(InnerAperture) = 1) =>
           \A rc \in TrueCells(InnerAperture) : \A t \in 0..T-1 :
               lc_aper.flux[t + 1] = tpf_flux[t][rc[1]][rc[2]]
    /\ (BackAggregated /\ MaskSum(back_mask) = 1) =>
           \A rc \in TrueCells(back_mask) : \A t \in 0..T-1 :
               lc_back.flux[t + 1] = tpf_flux[t][rc[1]][rc[2]]
    /\ (AperAggregated /\ H = 3 /\ W = 3) =>
           /\ TrueCells(InnerAperture) = {<<1, 1>>}
           /\ Len(lc_aper.flux) = T
           /\ \A t \in 0..T-1 : lc_aper.flux[t + 1] = tpf_flux[t][1][1]

C6_Witness ==
    /\ AperAggregated /\ H = 3 /\ W = 3 /\ T >= 2
    /\ MaskSum(InnerAperture) = 1
    /\ MaskSum(back_mask) > 1
    /\ \E t \in 0..T-1 : IsFinite(lc_aper.flux[t + 1]) /\ lc_aper.flux[t + 1] # Flt(0)
    /\ lc_aper.flux[1] # lc_aper.flux[2]

(* C7: subtracting A from B and negating gives, at every cadence index, the
   flux of subtracting B from A, for the series the cleaner holds once it has
   subtracted (all of one cadence count); the series it computed is one of
   them. *)
C7_SubtractAntisymmetric ==
    Subtracted =>
        /\ \A A \in {lc_aper, lc_back, lc_bg_sub} : \A B \in {lc_aper, lc_back, lc_bg_sub} :
               /\ Len(A.flux) = Len(B.flux)
               /\ \A i \in 1..Len(A.flux) :
                      LcNeg(BgSub(B, A)).flux[i] = BgSub(A, B).flux[i]
        /\ \A i \in 1..Len(lc_bg_sub.flux) :
               lc_bg_sub.flux[i] = LcNeg(BgSub(lc_back, lc_aper)).flux[i]

C7_Witness ==
    /\ Subtracted
    /\ \E i \in 1..Len(lc_bg_sub.flux) :
           IsFinite(lc_bg_sub.flux[i]) /\ lc_bg_sub.flux[i][1] > 0
    /\ \E i \in 1..Len(lc_bg_sub.flux) :
           IsFinite(lc_bg_sub.flux[i]) /\ lc_bg_sub.flux[i][1] < 0

(* C8: when no sample is anomalous the Outlier Remover returns the series it
   was given, same length, same values, same order, so the cleaner's result
   has the cadence count of the background-subtracted series. *)
C8_NoOutliersIdentity ==
    (pc = "done" /\ outlier_mask = {}) =>
        /\ lc_cln = lc_bg_sub
        /\ Len(lc_cln.flux) = Len(lc_bg_sub.flux)
        /\ Len(lc_cln.time) = Len(lc_bg_sub.time)

C8_Witness ==
    /\ pc = "done" /\ outlier_mask = {}
    /\ Len(lc_cln.flux) >= 2
    /\ lc_cln.flux[1] # lc_cln.flux[2]
    /\ lc_cln # lc_aper

(* C9: no step of the cleaner changes the Source Mask or the Pixel Cube. *)
C9_InputsReadOnly ==
    [][heap'["pipeline_mask"] = heap["pipeline_mask"] /\ tpf_flux' = tpf_flux]_vars

C9_Witness ==
    /\ pc = "l120"
    /\ MaskSum(InnerAperture) > 0
    /\ MaskSum(SourceMask) > 0
    /\ InnerAperture # SourceMask

(* C10: on a grid with at most 2 rows or at most 2 columns the partitioner
   ends without an error, the inner aperture is all-false and the Background
   Mask is the set of pixel locations not invalid at every time sample. *)
C10_SmallGridDegenerate ==
    (Partitioned /\ (H <= 2 \/ W <= 2)) =>
        /\ ~raised
        /\ AllFalse(InnerAperture)
        /\ \A rc \in Pixels : back_mask[rc[1]][rc[2]] <=> ~Dead(rc[1], rc[2])

C10_Witness ==
    /\ Partitioned /\ H = 1 /\ W >= 3
    /\ MaskSum(back_mask) > 0
    /\ \E rc \in Pixels : Dead(rc[1], rc[2])

====
